---- MODULE Spec2Model ----
(***************************************************************************)
(* A model of app/main.py of busan-ai-bot, a Kakao "skill" webhook.        *)
(*                                                                         *)
(* main.py holds both sides of an unresolved merge.  The side between      *)
(* "<<<<<<< HEAD" and "=======" (called HEAD here) defines the CSV rule     *)
(* engine, the internal-probe guard and a handler that refines a locally   *)
(* built draft with the LLM.  The other side (called 282b here, after its   *)
(* commit 282b89bd) defines address routing, the spot carousel, the        *)
(* weather card and a handler whose LLM request names MODEL and draft,      *)
(* which only the HEAD side assigns.  Both sides define POST /kakao/skill; *)
(* each is modelled as its own action.                                     *)
(*                                                                         *)
(* main.py has no session store, no slot-filling and no callback mode.      *)
(* The dialogue orchestrator of spec.md 4.1 and 4.5 is modelled from the   *)
(* specification, in the section so headed, under its own specification    *)
(* SpecOrch.                                                               *)
(*                                                                         *)
(* Text.  A Python str is a sequence of one-character strings.  TLA+       *)
(* strings are ASCII, so a Hangul syllable is written as the token         *)
(* "ko_" + its romanisation (one token = one code point), U+2192 as        *)
(* "u2192" and U+21D2 as "u21d2".  A fixed literal of the program that is  *)
(* only ever copied into a response (never searched or measured) is one    *)
(* upper-case token, named where it is defined.                            *)
(***************************************************************************)
EXTENDS Integers, Sequences, FiniteSets, TLC

VARIABLES
    client,     \* main.py:60   TRUE iff OPENAI_API_KEY is set (client is not None)
    search_enabled, \* main.py:53   SEARCH_ENABLED
    files,      \* DATA_DIR: file name -> [ok, rows]; ok = FALSE: open/parse fails
    callback_mode,  \* orchestrator: the callback-mode toggle (spec.md 6)
    req,        \* the request being answered: [side, body, llm]
    resp,       \* the HTTP response to req
    fx,         \* what answering req did: [llm, reads, search]
    locals,     \* the HEAD handler's draft and cong_notice for req
    rule_in,    \* rule-engine harness: the inputs [pois, bl, cong]
    rule_out,   \* rule-engine harness: [done, after_bl, after_cong, notice, draft]
    sessions,   \* orchestrator: user id -> [slots, updated]
    now,        \* orchestrator: the clock
    jobs,       \* orchestrator: the background callback jobs, in scheduling order
    turn        \* orchestrator: the last turn [path, user, cb, before, reply, llm]

vars == <<client, search_enabled, files, callback_mode, req, resp, fx, locals, rule_in, rule_out,
          sessions, now, jobs, turn>>

cfg_vars == <<client, search_enabled, files, callback_mode>>

http_vars == <<req, resp, fx, locals>>

rule_vars == <<rule_in, rule_out>>

orch_vars == <<sessions, now, jobs, turn>>

(***************************************************************************)
(* Python strings                                                          *)
(***************************************************************************)
WS ==
    {"\t", "\n", "u000b", "\f", "\r", "u001c", "u001d", "u001e", "u001f",
     " ", "u0085", "u00a0", "u1680", "u2000", "u2001", "u2002", "u2003",
     "u2004", "u2005", "u2006", "u2007", "u2008", "u2009", "u200a",
     "u2028", "u2029", "u202f", "u205f", "u3000"}

UPPER ==
    [c \in {"A","B","C","D","E","F","G","H","I","J","K","L","M",
            "N","O","P","Q","R","S","T","U","V","W","X","Y","Z"} |->
        CASE c = "A" -> "a" [] c = "B" -> "b" [] c = "C" -> "c" [] c = "D" -> "d"
          [] c = "E" -> "e" [] c = "F" -> "f" [] c = "G" -> "g" [] c = "H" -> "h"
          [] c = "I" -> "i" [] c = "J" -> "j" [] c = "K" -> "k" [] c = "L" -> "l"
          [] c = "M" -> "m" [] c = "N" -> "n" [] c = "O" -> "o" [] c = "P" -> "p"
          [] c = "Q" -> "q" [] c = "R" -> "r" [] c = "S" -> "s" [] c = "T" -> "t"
          [] c = "U" -> "u" [] c = "V" -> "v" [] c = "W" -> "w" [] c = "X" -> "x"
          [] c = "Y" -> "y" [] c = "Z" -> "z"]

SetMin(S) == CHOOSE x \in S : \A y \in S : x <= y

SetMax(S) == CHOOSE x \in S : \A y \in S : x >= y

\* str.lower()
lower(s) == [i \in 1..Len(s) |-> IF s[i] \in DOMAIN UPPER THEN UPPER[s[i]] ELSE s[i]]

\* str.strip()
strip(s) ==
    LET keep == {i \in 1..Len(s) : s[i] \notin WS}
    IN  IF keep = {} THEN <<>> ELSE SubSeq(s, SetMin(keep), SetMax(keep))

\* k in t
contains(k, t) ==
    \E i \in 1..(Len(t) + 1 - Len(k)) : SubSeq(t, i, i + Len(k) - 1) = k

\* any(k in t for k in keys)
any_in(keys, t) == \E n \in 1..Len(keys) : contains(keys[n], t)

\* s[:n]
Take(s, n) == SubSeq(s, 1, IF Len(s) < n THEN Len(s) ELSE n)

\* sep.join(lines)
RECURSIVE join(_, _)
join(sep, lines) ==
    IF lines = <<>> THEN <<>>
    ELSE IF Len(lines) = 1 THEN lines[1]
    ELSE lines[1] \o sep \o join(sep, Tail(lines))

(***************************************************************************)
(* Python values held by a csv.DictReader row: the column is absent from   *)
(* the header, the cell is None (a short row), or the cell is a str.       *)
(***************************************************************************)
PyNone == [t |-> "None", s |-> <<>>]

Absent == [t |-> "absent", s |-> <<>>]

Str(s) == [t |-> "str", s |-> s]

\* bool(v) of a cell
truthy(v) == v.t = "str" /\ v.s # <<>>

\* a or b
py_or(a, b) == IF truthy(a) THEN a ELSE b

\* d.get(k)
get(d, k) == IF d[k].t = "absent" THEN PyNone ELSE d[k]

\* d.get(k, default)
get_default(d, k, default) == IF d[k].t = "absent" THEN default ELSE d[k]

\* f"{v}"
fmt(v) == IF v.t = "None" THEN <<"N", "o", "n", "e">> ELSE v.s

Row(poi_id, name, title, area, severity, level) ==
    [poi_id |-> poi_id, name |-> name, title |-> title, area |-> area,
     severity |-> severity, level |-> level]

(***************************************************************************)
(* HEAD: the Knowledge Store and the rule engine                           *)
(***************************************************************************)
F_BLACKLIST == "jeju_access_blacklist.csv"

F_CONGESTION == "jeju_congestion_rules.csv"

F_HOTEL == "jeju_hotel_halftime_courses.csv"

F_SAMPLE == "jeju_sample_halfday_courses.csv"

FileNames == {F_BLACKLIST, F_CONGESTION, F_HOTEL, F_SAMPLE}

TOP_N == 3

SECTION_CAP == 5

read_csv_dicts(fs, filename) == IF fs[filename].ok THEN fs[filename].rows ELSE <<>>

\* (r.get("poi_id") or r.get("name") or "").strip()
row_key(r) == strip(py_or(py_or(get(r, "poi_id"), get(r, "name")), Str(<<>>)).s)

blocked_keys(bl) ==
    { row_key(bl[i]) :
        i \in { j \in 1..Len(bl) :
                  lower(py_or(get(bl[j], "severity"), Str(<<>>)).s) = <<"h", "i", "g", "h">> } }
    \ { <<>> }

filter_blacklist(pois, bl) ==
    LET blocked == blocked_keys(bl)
        keep(p) == ~(row_key(p) # <<>> /\ row_key(p) \in blocked)
    IN  SelectSeq(pois, keep)

\* (r.get("area") or "").strip()
row_area(r) == strip(py_or(get(r, "area"), Str(<<>>)).s)

high_areas(rules) ==
    { row_area(rules[i]) :
        i \in { j \in 1..Len(rules) :
                  lower(py_or(get(rules[j], "level"), Str(<<>>)).s) = <<"h", "i", "g", "h">> } }

\* A plausible slip: the empty-result revert is forgotten.
apply_congestion_rules_NoRevert(pois, rules) ==
    LET high == high_areas(rules)
        keep(p) == row_area(p) \notin high
        filtered == SelectSeq(pois, keep)
    IN  [pois |-> filtered, notice |-> Len(filtered) < Len(pois)]

\* A plausible slip: the notice is computed after the revert.
apply_congestion_rules_NoticeAfterRevert(pois, rules) ==
    LET high == high_areas(rules)
        keep(p) == row_area(p) \notin high
        filtered == SelectSeq(pois, keep)
        out == IF filtered # <<>> THEN filtered ELSE pois
    IN  [pois |-> out, notice |-> Len(out) < Len(pois)]

apply_congestion_rules(pois, rules) ==
    LET high == high_areas(rules)
        keep(p) == row_area(p) \notin high
        filtered == SelectSeq(pois, keep)
        notice == Len(filtered) < Len(pois)
    IN  [pois |-> IF filtered # <<>> THEN filtered ELSE pois, notice |-> notice]

pick_courses(fs) ==
    LET items == read_csv_dicts(fs, F_HOTEL)
    IN  Take(IF items = <<>> THEN read_csv_dicts(fs, F_SAMPLE) ELSE items, TOP_N)

\* the files pick_courses opens, in order
pick_courses_reads(fs) ==
    IF read_csv_dicts(fs, F_HOTEL) = <<>> THEN <<F_HOTEL, F_SAMPLE>> ELSE <<F_HOTEL>>

(***************************************************************************)
(* HEAD: the draft, main.py:434-453.  The fixed lines are tokens:          *)
(*   TIP_CONGESTION  main.py:440     TIP_MOVE, TIP_WIND, TIP_PARKING 435-7 *)
(*   COURSE_PLACEHOLDER  442 ("- half a day, 2-3 places, least transit")   *)
(*   COURSE_SUFFIX   442 (") - check the official opening hours")          *)
(*   DEFAULT_TITLE   442     EAT_SEAFOOD, EAT_CAFE  444-445                *)
(*   HDR_TIPS, HDR_COURSE, HDR_EAT  449-451     DISCLAIMER  452            *)
(***************************************************************************)
tips_of(cong_notice) ==
    (IF cong_notice THEN << <<"TIP_CONGESTION">> >> ELSE <<>>)
    \o << <<"TIP_MOVE">>, <<"TIP_WIND">>, <<"TIP_PARKING">> >>

course_line(p) ==
    <<"-", " ">>
    \o fmt(py_or(get(p, "name"), get_default(p, "title", Str(<<"DEFAULT_TITLE">>))))
    \o <<" ", "(">> \o fmt(get_default(p, "area", Str(<<>>))) \o <<"COURSE_SUFFIX">>

course_lines_of(pois) ==
    IF pois = <<>> THEN << <<"COURSE_PLACEHOLDER">> >>
    ELSE [i \in 1..Len(pois) |-> course_line(pois[i])]

eat_lines == << <<"EAT_SEAFOOD">>, <<"EAT_CAFE">> >>

draft_of(pois, cong_notice) ==
    <<"HDR_TIPS", "\n">>
    \o join(<<"\n">>, Take(tips_of(cong_notice), SECTION_CAP))
    \o <<"\n", "\n", "HDR_COURSE", "\n">>
    \o join(<<"\n">>, Take(course_lines_of(pois), SECTION_CAP))
    \o <<"\n", "\n", "HDR_EAT", "\n">>
    \o join(<<"\n">>, Take(eat_lines, SECTION_CAP))
    \o <<"\n", "\n", "DISCLAIMER">>

\* text.split("\n")
RECURSIVE split_lines(_)
split_lines(text) ==
    IF \A i \in 1..Len(text) : text[i] # "\n" THEN <<text>>
    ELSE LET n == SetMin({i \in 1..Len(text) : text[i] = "\n"})
         IN  <<SubSeq(text, 1, n - 1)>> \o split_lines(SubSeq(text, n + 1, Len(text)))

(***************************************************************************)
(* Both sides: Kakao response envelopes                                    *)
(***************************************************************************)
kakao_text(text) ==
    [version |-> "2.0", template |-> [outputs |-> << [simpleText |-> [text |-> text]] >>]]

\* image_url is a Python value: PyNone (the default of main.py:181) or Str(url);
\* the thumbnail is set only when it is truthy (main.py:194-195)
kakao_basic_card(title, description, buttons, image_url) ==
    LET card == [title |-> title, description |-> description, buttons |-> buttons]
        with_thumbnail == [title |-> title, description |-> description, buttons |-> buttons,
                           thumbnail |-> [imageUrl |-> image_url.s]]
    IN  [version |-> "2.0",
         template |-> [outputs |-> << [basicCard |-> IF truthy(image_url) THEN with_thumbnail
                                                     ELSE card] >>]]

\* the outputs of card_obj follow the text only when card_obj holds a
\* template with outputs (main.py:200)
kakao_text_plus_card(text, card_obj) ==
    LET outputs == << [simpleText |-> [text |-> text]] >>
    IN  [version |-> "2.0",
         template |-> [outputs |->
             IF "template" \in DOMAIN card_obj /\ "outputs" \in DOMAIN card_obj.template
             THEN outputs \o card_obj.template.outputs
             ELSE outputs]]

kakao_carousel(cards) ==
    [version |-> "2.0",
     template |-> [outputs |-> << [carousel |-> [type |-> "basicCard", items |-> cards]] >>]]

\* The Hangul syllables (U+AC00..U+D7A3) of the model's alphabet: the token of
\* each and the UTF-8 percent-encoding urllib.parse.quote_plus gives it.
(* ko_ga U+AC00, ko_ga_n U+AC04, ko_go_s U+ACF3, ko_go_ng U+ACF5, ko_gwa_n U+AD00
   ko_gwa_ng U+AD11, ko_geu_m U+AE08, ko_gi U+AE30, ko_kka U+AE4C, ko_na_l U+B0A0
   ko_nae U+B0B4, ko_nyeo_ng U+B155, ko_neu_l U+B298, ko_da U+B2E4, ko_dae U+B300
   ko_de U+B370, ko_deu U+B4DC, ko_deu_l U+B4E4, ko_di U+B514, ko_ryeo U+B824
   ko_ryo U+B8CC, ko_ru_l U+B8F0, ko_ma_n U+B9CC, ko_myeo_ng U+BA85, ko_mu U+BB34
   ko_mu_l U+BB3C, ko_ba U+BC14, ko_ba_g U+BC15, ko_ba_m U+BC24, ko_beo_n U+BC88
   ko_bo U+BCF4, ko_bo_l U+BCFC, ko_bu U+BD80, ko_sa U+C0AC, ko_sa_n U+C0B0
   ko_seo U+C11C, ko_se_s U+C14B, ko_so U+C18C, ko_seu U+C2A4, ko_si U+C2DC
   ko_si_l U+C2E4, ko_ssi U+C528, ko_a U+C544, ko_a_n U+C548, ko_a_l U+C54C
   ko_ya_g U+C57D, ko_eo U+C5B4, ko_e U+C5D0, ko_e_n U+C5D4, ko_yeo U+C5EC
   ko_yeo_g U+C5ED, ko_yeo_n U+C5F0, ko_ye U+C608, ko_o U+C624, ko_yo U+C694
   ko_yo_ng U+C6A9, ko_u_n U+C6B4, ko_u_l U+C6B8, ko_i U+C774, ko_i_b U+C785
   ko_ja_ng U+C7A5, ko_jeo_n U+C804, ko_je U+C81C, ko_jyeo_ss U+C84C, ko_jo_g U+C871
   ko_jo_h U+C88B, ko_ju U+C8FC, ko_jwo U+C918, ko_ji U+C9C0, ko_ji_n U+C9C4
   ko_cheo_n U+CC9C, ko_cho U+CD08, ko_chu U+CD94, ko_chu_g U+CD95, ko_chi_m U+CE68
   ko_keo U+CEE4, ko_ko U+CF54, ko_teo U+D130, ko_te_l U+D154, ko_te_m U+D15C
   ko_pye U+D3D0, ko_pyo U+D45C, ko_peu_l U+D50C, ko_ha_n U+D55C, ko_ha_ng U+D56D
   ko_hae U+D574, ko_hae_ng U+D589, ko_ho U+D638, ko_hwa U+D654, ko_hoe U+D68C
   ko_hyu U+D734 *)
\* token, quote_plus(character)   -- the token's code point is in the comment below
HANGUL_TABLE ==
    { <<"ko_ga", "%EA%B0%80">>, <<"ko_ga_n", "%EA%B0%84">>, <<"ko_go_s", "%EA%B3%B3">>,
      <<"ko_go_ng", "%EA%B3%B5">>, <<"ko_gwa_n", "%EA%B4%80">>, <<"ko_gwa_ng", "%EA%B4%91">>,
      <<"ko_geu_m", "%EA%B8%88">>, <<"ko_gi", "%EA%B8%B0">>, <<"ko_kka", "%EA%B9%8C">>,
      <<"ko_na_l", "%EB%82%A0">>, <<"ko_nae", "%EB%82%B4">>, <<"ko_nyeo_ng", "%EB%85%95">>,
      <<"ko_neu_l", "%EB%8A%98">>, <<"ko_da", "%EB%8B%A4">>, <<"ko_dae", "%EB%8C%80">>,
      <<"ko_de", "%EB%8D%B0">>, <<"ko_deu", "%EB%93%9C">>, <<"ko_deu_l", "%EB%93%A4">>,
      <<"ko_di", "%EB%94%94">>, <<"ko_ryeo", "%EB%A0%A4">>, <<"ko_ryo", "%EB%A3%8C">>,
      <<"ko_ru_l", "%EB%A3%B0">>, <<"ko_ma_n", "%EB%A7%8C">>, <<"ko_myeo_ng", "%EB%AA%85">>,
      <<"ko_mu", "%EB%AC%B4">>, <<"ko_mu_l", "%EB%AC%BC">>, <<"ko_ba", "%EB%B0%94">>,
      <<"ko_ba_g", "%EB%B0%95">>, <<"ko_ba_m", "%EB%B0%A4">>, <<"ko_beo_n", "%EB%B2%88">>,
      <<"ko_bo", "%EB%B3%B4">>, <<"ko_bo_l", "%EB%B3%BC">>, <<"ko_bu", "%EB%B6%80">>,
      <<"ko_sa", "%EC%82%AC">>, <<"ko_sa_n", "%EC%82%B0">>, <<"ko_seo", "%EC%84%9C">>,
      <<"ko_se_s", "%EC%85%8B">>, <<"ko_so", "%EC%86%8C">>, <<"ko_seu", "%EC%8A%A4">>,
      <<"ko_si", "%EC%8B%9C">>, <<"ko_si_l", "%EC%8B%A4">>, <<"ko_ssi", "%EC%94%A8">>,
      <<"ko_a", "%EC%95%84">>, <<"ko_a_n", "%EC%95%88">>, <<"ko_a_l", "%EC%95%8C">>,
      <<"ko_ya_g", "%EC%95%BD">>, <<"ko_eo", "%EC%96%B4">>, <<"ko_e", "%EC%97%90">>,
      <<"ko_e_n", "%EC%97%94">>, <<"ko_yeo", "%EC%97%AC">>, <<"ko_yeo_g", "%EC%97%AD">>,
      <<"ko_yeo_n", "%EC%97%B0">>, <<"ko_ye", "%EC%98%88">>, <<"ko_o", "%EC%98%A4">>,
      <<"ko_yo", "%EC%9A%94">>, <<"ko_yo_ng", "%EC%9A%A9">>, <<"ko_u_n", "%EC%9A%B4">>,
      <<"ko_u_l", "%EC%9A%B8">>, <<"ko_i", "%EC%9D%B4">>, <<"ko_i_b", "%EC%9E%85">>,
      <<"ko_ja_ng", "%EC%9E%A5">>, <<"ko_jeo_n", "%EC%A0%84">>, <<"ko_je", "%EC%A0%9C">>,
      <<"ko_jyeo_ss", "%EC%A1%8C">>, <<"ko_jo_g", "%EC%A1%B1">>, <<"ko_jo_h", "%EC%A2%8B">>,
      <<"ko_ju", "%EC%A3%BC">>, <<"ko_jwo", "%EC%A4%98">>, <<"ko_ji", "%EC%A7%80">>,
      <<"ko_ji_n", "%EC%A7%84">>, <<"ko_cheo_n", "%EC%B2%9C">>, <<"ko_cho", "%EC%B4%88">>,
      <<"ko_chu", "%EC%B6%94">>, <<"ko_chu_g", "%EC%B6%95">>, <<"ko_chi_m", "%EC%B9%A8">>,
      <<"ko_keo", "%EC%BB%A4">>, <<"ko_ko", "%EC%BD%94">>, <<"ko_teo", "%ED%84%B0">>,
      <<"ko_te_l", "%ED%85%94">>, <<"ko_te_m", "%ED%85%9C">>, <<"ko_pye", "%ED%8F%90">>,
      <<"ko_pyo", "%ED%91%9C">>, <<"ko_peu_l", "%ED%94%8C">>, <<"ko_ha_n", "%ED%95%9C">>,
      <<"ko_ha_ng", "%ED%95%AD">>, <<"ko_hae", "%ED%95%B4">>, <<"ko_hae_ng", "%ED%96%89">>,
      <<"ko_ho", "%ED%98%B8">>, <<"ko_hwa", "%ED%99%94">>, <<"ko_hoe", "%ED%9A%8C">>,
      <<"ko_hyu", "%ED%9C%B4">> }

HANGUL_PCT == [c \in {e[1] : e \in HANGUL_TABLE} |-> (CHOOSE e \in HANGUL_TABLE : e[1] = c)[2]]

\* quote_plus keeps the ASCII letters and digits and "_.-~" (main.py:240-241)
QUOTE_SAFE ==
    {"-", ".", "0", "1", "2", "3", "4", "5", "6", "7", "8", "9", "A", "B",
     "C", "D", "E", "F", "G", "H", "I", "J", "K", "L", "M", "N", "O", "P",
     "Q", "R", "S", "T", "U", "V", "W", "X", "Y", "Z", "_", "a", "b", "c",
     "d", "e", "f", "g", "h", "i", "j", "k", "l", "m", "n", "o", "p", "q",
     "r", "s", "t", "u", "v", "w", "x", "y", "z", "~"}

\* every other ASCII character, the white space beyond ASCII and the two
\* arrows of the alphabet: "+" for the space, else the %XX of the UTF-8 bytes.
\* A character that TLA+ cannot write in a string (a control character, the
\* backquote, a character beyond ASCII) is the token "uXXXX" of its code point.
PCT_TABLE ==
    { <<"u0000", "%00">>, <<"u0001", "%01">>, <<"u0002", "%02">>,
      <<"u0003", "%03">>, <<"u0004", "%04">>, <<"u0005", "%05">>,
      <<"u0006", "%06">>, <<"u0007", "%07">>, <<"u0008", "%08">>,
      <<"\t", "%09">>, <<"\n", "%0A">>, <<"u000b", "%0B">>,
      <<"\f", "%0C">>, <<"\r", "%0D">>, <<"u000e", "%0E">>,
      <<"u000f", "%0F">>, <<"u0010", "%10">>, <<"u0011", "%11">>,
      <<"u0012", "%12">>, <<"u0013", "%13">>, <<"u0014", "%14">>,
      <<"u0015", "%15">>, <<"u0016", "%16">>, <<"u0017", "%17">>,
      <<"u0018", "%18">>, <<"u0019", "%19">>, <<"u001a", "%1A">>,
      <<"u001b", "%1B">>, <<"u001c", "%1C">>, <<"u001d", "%1D">>,
      <<"u001e", "%1E">>, <<"u001f", "%1F">>, <<" ", "+">>, <<"!", "%21">>,
      <<"\"", "%22">>, <<"#", "%23">>, <<"$", "%24">>, <<"%", "%25">>,
      <<"&", "%26">>, <<"'", "%27">>, <<"(", "%28">>, <<")", "%29">>,
      <<"*", "%2A">>, <<"+", "%2B">>, <<",", "%2C">>, <<"/", "%2F">>,
      <<":", "%3A">>, <<";", "%3B">>, <<"<", "%3C">>, <<"=", "%3D">>,
      <<">", "%3E">>, <<"?", "%3F">>, <<"@", "%40">>, <<"[", "%5B">>,
      <<"\\", "%5C">>, <<"]", "%5D">>, <<"^", "%5E">>, <<"u0060", "%60">>,
      <<"{", "%7B">>, <<"|", "%7C">>, <<"}", "%7D">>, <<"u007f", "%7F">>,
      <<"u0085", "%C2%85">>, <<"u00a0", "%C2%A0">>,
      <<"u1680", "%E1%9A%80">>, <<"u2000", "%E2%80%80">>,
      <<"u2001", "%E2%80%81">>, <<"u2002", "%E2%80%82">>,
      <<"u2003", "%E2%80%83">>, <<"u2004", "%E2%80%84">>,
      <<"u2005", "%E2%80%85">>, <<"u2006", "%E2%80%86">>,
      <<"u2007", "%E2%80%87">>, <<"u2008", "%E2%80%88">>,
      <<"u2009", "%E2%80%89">>, <<"u200a", "%E2%80%8A">>,
      <<"u2028", "%E2%80%A8">>, <<"u2029", "%E2%80%A9">>,
      <<"u202f", "%E2%80%AF">>, <<"u205f", "%E2%81%9F">>,
      <<"u3000", "%E3%80%80">>, <<"u2192", "%E2%86%92">>,
      <<"u21d2", "%E2%87%92">> }

ASCII_PCT == [c \in {e[1] : e \in PCT_TABLE} |-> (CHOOSE e \in PCT_TABLE : e[1] = c)[2]]

\* urllib.parse.quote_plus(s), for the characters of the model's alphabet
quote_plus(s) ==
    [i \in 1..Len(s) |->
        CASE s[i] \in QUOTE_SAFE -> s[i]
          [] s[i] \in DOMAIN HANGUL_PCT -> HANGUL_PCT[s[i]]
          [] s[i] \in DOMAIN ASCII_PCT -> ASCII_PCT[s[i]]]

\* "ko" if any character is a Hangul syllable, else "en"   (both sides)
guess_lang(text) ==
    IF \E i \in 1..Len(text) : text[i] \in DOMAIN HANGUL_PCT THEN "ko" ELSE "en"

(***************************************************************************)
(* HEAD: the internal-probe guard, main.py:131-136                         *)
(***************************************************************************)
probe_keys ==
    << <<"ko_ji", "ko_chi_m">>,
       <<"ko_ru_l", "ko_e_n", "ko_ji_n">>,
       <<"ko_ma_n", "ko_deu_l", "ko_eo", "ko_jyeo_ss">>,
       <<"i", "n", "t", "e", "r", "n", "a", "l">>,
       <<"p", "r", "o", "m", "p", "t">>,
       <<"ko_si", "ko_seu", "ko_te_m">>,
       <<"c", "s", "v">>,
       <<"ko_de", "ko_i", "ko_teo", "ko_se_s">>,
       <<"ko_ko", "ko_deu", " ", "ko_bo", "ko_yeo", "ko_jwo">>,
       <<"ko_nae", "ko_yo_ng", " ", "ko_bo", "ko_yeo", "ko_jwo">> >>

is_internal_probe(text) == text # <<>> /\ any_in(probe_keys, lower(text))

(***************************************************************************)
(* 282b: address parsing, main.py:220-237.  The two re.search calls are    *)
(* worked out as the backtracking matcher does: the leftmost start, then   *)
(* the shortest first group for which the rest of the pattern matches.     *)
(***************************************************************************)
\* where a greedy \s* starting at j stops
ws_end(t, j) == SetMin({k \in j..(Len(t) + 1) : k = Len(t) + 1 \/ t[k] \notin WS})

\* the last index of the run of non-newline characters starting at p
dot_end(t, p) ==
    SetMax({e \in p..Len(t) : \A x \in p..e : t[x] # "\n"})

\* (?:to|->|U+2192|U+21D2) under re.IGNORECASE at k: the length matched, or 0
sep_len(t, k) ==
    IF k + 1 <= Len(t) /\ lower(SubSeq(t, k, k + 1)) = <<"t", "o">> THEN 2
    ELSE IF k + 1 <= Len(t) /\ SubSeq(t, k, k + 1) = <<"-", ">">> THEN 2
    ELSE IF k <= Len(t) /\ t[k] \in {"u2192", "u21d2"} THEN 1
    ELSE 0

\* the starts of group 2 that \s*(.+) allows after the separator ending before x
g2_starts(t, x) ==
    {p \in x..ws_end(t, x) : p <= Len(t) /\ t[p] # "\n"}

\* \s*(?:sep)\s*(.+) matches from j
tail_to(t, j) ==
    LET k == ws_end(t, j)
    IN  sep_len(t, k) > 0 /\ g2_starts(t, k + sep_len(t, k)) # {}

\* re.search(r"(.+?)\s*(?:to|->|...)\s*(.+)", t, re.IGNORECASE)
search_to(t) ==
    LET hits == { ij \in (1..Len(t)) \X (1..Len(t)) :
                    /\ ij[1] < ij[2]
                    /\ \A x \in ij[1]..(ij[2] - 1) : t[x] # "\n"
                    /\ tail_to(t, ij[2]) }
    IN  IF hits = {} THEN [m |-> FALSE, g1 |-> <<>>, g2 |-> <<>>]
        ELSE LET i == SetMin({ij[1] : ij \in hits})
                 j == SetMin({ij[2] : ij \in {h \in hits : h[1] = i}})
                 k == ws_end(t, j)
                 p == SetMax(g2_starts(t, k + sep_len(t, k)))
             IN  [m |-> TRUE, g1 |-> SubSeq(t, i, j - 1), g2 |-> SubSeq(t, p, dot_end(t, p))]

lit_at(t, k, lit) == k + Len(lit) - 1 <= Len(t) /\ SubSeq(t, k, k + Len(lit) - 1) = lit

KO_ESEO == <<"ko_e", "ko_seo">>

KO_KKAJI == <<"ko_kka", "ko_ji">>

\* the ends q (exclusive) of a group 2 starting at p: (.+?)\s*KKAJI
g2_ends(t, p) ==
    {q \in (p + 1)..(Len(t) + 1) :
        /\ \A x \in p..(q - 1) : t[x] # "\n"
        /\ lit_at(t, ws_end(t, q), KO_KKAJI)}

\* \s*ESEO\s*(.+?)\s*KKAJI matches from j: the starts of group 2 that work
eseo_starts(t, j) ==
    LET k == ws_end(t, j)
    IN  IF lit_at(t, k, KO_ESEO)
        THEN {p \in (k + 2)..ws_end(t, k + 2) : p <= Len(t) /\ g2_ends(t, p) # {}}
        ELSE {}

\* re.search(r"(.+?)\s*ESEO\s*(.+?)\s*KKAJI", t)
search_eseo(t) ==
    LET hits == { ij \in (1..Len(t)) \X (1..Len(t)) :
                    /\ ij[1] < ij[2]
                    /\ \A x \in ij[1]..(ij[2] - 1) : t[x] # "\n"
                    /\ eseo_starts(t, ij[2]) # {} }
    IN  IF hits = {} THEN [m |-> FALSE, g1 |-> <<>>, g2 |-> <<>>]
        ELSE LET i == SetMin({ij[1] : ij \in hits})
                 j == SetMin({ij[2] : ij \in {h \in hits : h[1] = i}})
                 p == SetMax(eseo_starts(t, j))
                 q == SetMin(g2_ends(t, p))
             IN  [m |-> TRUE, g1 |-> SubSeq(t, i, j - 1), g2 |-> SubSeq(t, p, q - 1)]

NoPair == [ok |-> FALSE, a |-> <<>>, b |-> <<>>]

parse_addr_to_addr_AtLeastTwo(utter) ==
    LET t == strip(utter)
        m1 == search_to(t)
        m2 == search_eseo(t)
    IN  IF utter = <<>> THEN NoPair
        ELSE IF m1.m /\ Len(strip(m1.g1)) >= 2 /\ Len(strip(m1.g2)) >= 2
             THEN [ok |-> TRUE, a |-> strip(m1.g1), b |-> strip(m1.g2)]
        ELSE IF m2.m /\ Len(strip(m2.g1)) >= 2 /\ Len(strip(m2.g2)) >= 2
             THEN [ok |-> TRUE, a |-> strip(m2.g1), b |-> strip(m2.g2)]
        ELSE NoPair

parse_addr_to_addr(utter) ==
    LET t == strip(utter)
        m1 == search_to(t)
        m2 == search_eseo(t)
    IN  IF utter = <<>> THEN NoPair
        ELSE IF m1.m /\ Len(strip(m1.g1)) > 2 /\ Len(strip(m1.g2)) > 2
             THEN [ok |-> TRUE, a |-> strip(m1.g1), b |-> strip(m1.g2)]
        ELSE IF m2.m /\ Len(strip(m2.g1)) > 2 /\ Len(strip(m2.g2)) > 2
             THEN [ok |-> TRUE, a |-> strip(m2.g1), b |-> strip(m2.g2)]
        ELSE NoPair

\* main.py:239-268.  The URL prefixes and the labels are tokens.
\* the image of main.py:267
MARKER_IMG == <<"https://", "t1.daumcdn.net", "/localimg/localimages/07/mapapidoc/marker_red.png">>

build_directions_card(start_addr, end_addr, lang) ==
    LET o == quote_plus(strip(start_addr))
        d == quote_plus(strip(end_addr))
        gmaps == <<"https://www.google.com/maps/dir/?api=1&origin=">> \o o \o <<"&destination=">> \o d
        kmapw == <<"https://map.kakao.com/?sName=">> \o o \o <<"&eName=">> \o d
        amap == <<"https://maps.apple.com/?saddr=">> \o o \o <<"&daddr=">> \o d
        btn(label, url) == [action |-> "webLink", label |-> label, webLinkUrl |-> url]
    IN  IF lang = "ko"
        THEN kakao_basic_card(<<"TITLE_DIRECTIONS_KO">>,
                 start_addr \o <<" ", "u2192", " ">> \o end_addr \o <<"\n", "DESC_OPEN_MAP_KO">>,
                 << btn("LABEL_GOOGLE_KO", gmaps), btn("LABEL_KAKAO_KO", kmapw),
                    btn("LABEL_APPLE_KO", amap) >>,
                 Str(MARKER_IMG))
        ELSE kakao_basic_card(<<"Directions">>,
                 start_addr \o <<" ", "u2192", " ">> \o end_addr \o <<"\n", "DESC_OPEN_MAP_EN">>,
                 << btn("Google Maps", gmaps), btn("Kakao Map (Web)", kmapw),
                    btn("Apple Maps", amap) >>,
                 Str(MARKER_IMG))

(***************************************************************************)
(* 282b: search and the weather card, main.py:276-349                      *)
(* A search result is [title, snippet, link]; a link is a sequence of      *)
(* tokens, its host one of them.                                           *)
(***************************************************************************)
\* web_search: nothing when SEARCH_ENABLED is off, else what the provider gives
web_search(enabled, provider_results) == IF enabled THEN provider_results ELSE <<>>

IsKmaLink(link) == contains(<<"weather.go.kr">>, link) \/ contains(<<"kma.go.kr">>, link)

IsNaverLink(link) == contains(<<"search.naver.com">>, link)

\* the first KMA link and the first Naver link of the results, <<>> when none
pick_weather_links(results) ==
    LET k == {i \in 1..Len(results) : IsKmaLink(results[i].link)}
        n == {i \in 1..Len(results) : IsNaverLink(results[i].link)}
    IN  [kma |-> IF k = {} THEN <<>> ELSE results[SetMin(k)].link,
         naver |-> IF n = {} THEN <<>> ELSE results[SetMin(n)].link]

kakao_link_card(title, desc, links) ==
    LET btn(label, url) == [action |-> "webLink", label |-> label, webLinkUrl |-> url]
        b1 == IF links.kma # <<>> THEN << btn("LABEL_KMA", links.kma) >> ELSE <<>>
        b2 == IF links.naver # <<>> THEN << btn("LABEL_NAVER_WEATHER", links.naver) >> ELSE <<>>
        buttons == IF b1 \o b2 = <<>>
                   THEN << btn("LABEL_NAVER_SEARCH", <<"https://search.naver.com/search.naver?query=", "QUERY_JEJU_WEATHER">>) >>
                   ELSE b1 \o b2
    IN  kakao_basic_card(title, desc, buttons, PyNone)

\* main.py:373-392 as the cards main.py:496-502 builds from them
JEJU_SPOTS == <<"SEONGSAN", "HYEOPJAE", "HALLASAN">>

spot_cards ==
    [i \in 1..Len(JEJU_SPOTS) |->
        [title |-> <<JEJU_SPOTS[i], "_TITLE">>, description |-> <<JEJU_SPOTS[i], "_DESC">>,
         thumbnail |-> [imageUrl |-> <<JEJU_SPOTS[i], "_IMG">>],
         buttons |-> << [action |-> "webLink", label |-> "LABEL_VIEW_MAP",
                         webLinkUrl |-> <<JEJU_SPOTS[i], "_LINK">>] >>]]

spot_keywords ==
    << <<"ko_myeo_ng", "ko_so">>,
       <<"ko_chu", "ko_cheo_n">>,
       <<"ko_gwa_n", "ko_gwa_ng", "ko_ji">>,
       <<"ko_yeo", "ko_hae_ng", "ko_ji">>,
       <<"ko_bo_l", "ko_ma_n", "ko_ha_n", " ", "ko_go_s">>,
       <<"ko_eo", "ko_di", "ko_ga", " ", "ko_jo_h", "ko_a">> >>

live_keywords ==
    << <<"ko_chu_g", "ko_je">>,
       <<"ko_hae_ng", "ko_sa">>,
       <<"ko_go_ng", "ko_yeo_n">>,
       <<"ko_na_l", "ko_ssi">>,
       <<"ko_u_n", "ko_ha_ng">>,
       <<"ko_u_n", "ko_hae_ng">>,
       <<"ko_si_l", "ko_si", "ko_ga_n">>,
       <<"ko_si", "ko_ga_n", "ko_pyo">>,
       <<"ko_go_ng", "ko_ji">>,
       <<"ko_pye", "ko_ja_ng">>,
       <<"ko_hyu", "ko_mu">>,
       <<"ko_i_b", "ko_ja_ng", "ko_ryo">>,
       <<"ko_yo", "ko_geu_m">>,
       <<"ko_ye", "ko_ya_g">>,
       <<"ko_jeo_n", "ko_si">>,
       <<"ko_dae", "ko_hoe">>,
       <<"ko_o", "ko_neu_l">>,
       <<"ko_i", "ko_beo_n", "ko_ju">>,
       <<"ko_o", "ko_neu_l", "ko_ba_m">>,
       <<"f", "e", "s", "t", "i", "v", "a", "l">>,
       <<"e", "v", "e", "n", "t">>,
       <<"w", "e", "a", "t", "h", "e", "r">>,
       <<"t", "o", "d", "a", "y">>,
       <<"t", "o", "n", "i", "g", "h", "t">>,
       <<"h", "o", "u", "r", "s">>,
       <<"o", "p", "e", "n">>,
       <<"c", "l", "o", "s", "e">> >>

KO_NALSSI == <<"ko_na_l", "ko_ssi">>

EN_WEATHER == <<"w", "e", "a", "t", "h", "e", "r">>

(***************************************************************************)
(* The request body.  request.json() fails (no body, not JSON) or gives a  *)
(* JSON value; a value is [t, truthy, s]: its type, bool(value) and, for a *)
(* str, its characters.  body.ur is body["userRequest"] and body.ur.ut is  *)
(* body["userRequest"]["utterance"], "missing" when the key is not there.  *)
(***************************************************************************)
JV(t, b, s) == [t |-> t, truthy |-> b, s |-> s]

J_missing == JV("missing", FALSE, <<>>)

J_str(s) == JV("str", s # <<>>, s)

UR(t, b, ut) == [t |-> t, truthy |-> b, ut |-> ut]

Body(t, ur) == [t |-> t, ur |-> ur]

UR_missing == UR("missing", FALSE, J_missing)

\* {"userRequest": {"utterance": u}}
BodyOf(u) == Body("dict", UR("dict", TRUE, J_str(u)))

\* body.get("userRequest"): AttributeError unless body is a dict
\* (x or {}).get("utterance"): AttributeError when x is truthy and no dict
\* The value of  (body.get("userRequest") or {}).get("utterance") or "",
\* or raised = TRUE when evaluating it raises.
utterance_of(body) ==
    IF body.t \notin {"dict", "unparseable"} THEN [raised |-> TRUE, v |-> J_missing]
    ELSE IF body.t = "unparseable" \/ ~body.ur.truthy THEN [raised |-> FALSE, v |-> J_str(<<>>)]
    ELSE IF body.ur.t # "dict" THEN [raised |-> TRUE, v |-> J_missing]
    ELSE IF ~body.ur.ut.truthy THEN [raised |-> FALSE, v |-> J_str(<<>>)]
    ELSE [raised |-> FALSE, v |-> body.ur.ut]

Ok200(payload) == [status |-> 200, body |-> payload]

\* an exception left the handler: the framework answers 500
Raised500 == [status |-> 500]

NoFx == [llm |-> 0, reads |-> <<>>, search |-> 0]

\* The handler's position and locals when it returned: the path that answered
\* ("raised": an exception left the handler), and the draft once it is built.
At(path) == [path |-> path, built |-> FALSE, draft |-> <<>>, cong_notice |-> FALSE]

NoLocals == At("none")

\* resp.choices[0].message.content.strip(): the LLM call raised, or the
\* content is None (".strip()" raises), or the text comes back trimmed
llm_answer(llm) ==
    IF llm.raises \/ llm.content.t # "str" THEN [raised |-> TRUE, text |-> <<>>]
    ELSE [raised |-> FALSE, text |-> strip(llm.content.s)]

(***************************************************************************)
(* HEAD: POST /kakao/skill, main.py:413-453 and 561-578                    *)
(*   REFUSAL_TEXT 422     ERR_NO_KEY_HEAD 425                              *)
(***************************************************************************)
\* what the HEAD handler answers and does, given the configuration and inputs
head_result(c, fs, body, llm) ==
    LET u == utterance_of(body)
        bl == read_csv_dicts(fs, F_BLACKLIST)
        cong == read_csv_dicts(fs, F_CONGESTION)
        r == apply_congestion_rules(filter_blacklist(pick_courses(fs), bl), cong)
        draft == draft_of(r.pois, r.notice)
        a == llm_answer(llm)
    IN  \* main.py:420: .strip() of a truthy value that is no str raises
        IF u.raised \/ u.v.t # "str"
        THEN [resp |-> Raised500, fx |-> NoFx, locals |-> At("raised")]
        ELSE IF is_internal_probe(strip(u.v.s))
        THEN [resp |-> Ok200(kakao_text(<<"REFUSAL_TEXT">>)), fx |-> NoFx, locals |-> At("guard")]
        ELSE IF ~c
        THEN [resp |-> Ok200(kakao_text(<<"ERR_NO_KEY_HEAD">>)), fx |-> NoFx, locals |-> At("no_key")]
        ELSE [resp |-> Ok200(kakao_text(IF a.raised THEN draft ELSE a.text)),
              fx |-> [llm |-> 1,
                      reads |-> <<F_BLACKLIST, F_CONGESTION>> \o pick_courses_reads(fs),
                      search |-> 0],
              locals |-> [path |-> "llm", built |-> TRUE, draft |-> draft, cong_notice |-> r.notice]]

kakao_skill(body, llm) ==
    LET out == head_result(client, files, body, llm)
    IN  /\ req.side = "none"
        /\ req' = [side |-> "HEAD", body |-> body, llm |-> llm, provider |-> <<>>]
        /\ resp' = out.resp
        /\ fx' = out.fx
        /\ locals' = out.locals
        /\ UNCHANGED <<cfg_vars, rule_vars, orch_vars>>

(***************************************************************************)
(* 282b: POST /kakao/skill, main.py:475-558 and 561-586                    *)
(*   ERR_NO_KEY_282B 513     ERR_TRY_LATER 584 ("Sorry, try again later")  *)
(***************************************************************************)
\* The LLM request of main.py:562-570 as the 282b side has it.  Its arguments
\* name MODEL and draft, which are assigned at main.py:27 and main.py:448-453,
\* lines of the HEAD side only: on this side evaluating the arguments raises
\* NameError inside the try, before anything is sent to the LLM, and the
\* except of main.py:582-585 answers.
llm_request_282b == [raised |-> TRUE, sent |-> 0]

side282b_result(c, se, body, provider) ==
    LET u == utterance_of(body)
        \* main.py:478-482: the try covers the extraction, so a raise gives ""
        utter == IF u.raised THEN J_str(<<>>) ELSE u.v
        pair == parse_addr_to_addr(utter.s)
        lang == guess_lang(utter.s)
        need_search == any_in(live_keywords, utter.s) \/ contains(EN_WEATHER, lower(utter.s))
        called == se /\ need_search
        results == IF called THEN web_search(se, provider) ELSE <<>>
        sfx == [llm |-> 0, reads |-> <<>>, search |-> IF called THEN 1 ELSE 0]
    IN  \* main.py:223: utter.strip() of a truthy value that is no str raises
        IF utter.t # "str"
        THEN [resp |-> Raised500, fx |-> NoFx, locals |-> At("raised")]
        ELSE IF pair.ok
        THEN [resp |-> Ok200(kakao_text_plus_card(
                          IF lang = "ko" THEN <<"EXPLAIN_DIRECTIONS_KO">> ELSE <<"EXPLAIN_DIRECTIONS_EN">>,
                          build_directions_card(pair.a, pair.b, lang))),
              fx |-> NoFx, locals |-> At("address")]
        ELSE IF any_in(spot_keywords, utter.s)
        THEN [resp |-> Ok200([version |-> "2.0",
                              template |-> [outputs |->
                                  << [simpleText |-> [text |-> <<"TEXT_SPOTS_TOP3">>]] >>
                                  \o kakao_carousel(spot_cards).template.outputs]]),
              fx |-> NoFx, locals |-> At("spot")]
        ELSE IF ~c
        THEN [resp |-> Ok200(kakao_text(<<"ERR_NO_KEY_282B">>)), fx |-> NoFx, locals |-> At("no_key")]
        ELSE IF (need_search /\ contains(KO_NALSSI, utter.s)) \/ contains(EN_WEATHER, lower(utter.s))
        THEN [resp |-> Ok200(kakao_text_plus_card(
                          IF lang = "ko" THEN <<"GUIDE_WEATHER_KO">> ELSE <<"GUIDE_WEATHER_EN">>,
                          kakao_link_card(
                              IF lang = "ko" THEN <<"TITLE_WEATHER_KO">> ELSE <<"TITLE_WEATHER_EN">>,
                              IF lang = "ko" THEN <<"DESC_WEATHER_KO">> ELSE <<"DESC_WEATHER_EN">>,
                              pick_weather_links(results)))),
              fx |-> sfx, locals |-> At("weather")]
        ELSE [resp |-> Ok200(kakao_text(<<"ERR_TRY_LATER">>)),
              fx |-> [sfx EXCEPT !.llm = llm_request_282b.sent], locals |-> At("llm")]

\* No LLM outcome is an input of this side: the request is never sent.
NoLlm == [raises |-> FALSE, content |-> PyNone]

kakao_skill_282b(body, provider) ==
    LET out == side282b_result(client, search_enabled, body, provider)
    IN  /\ req.side = "none"
        /\ req' = [side |-> "282b", body |-> body, llm |-> NoLlm, provider |-> provider]
        /\ resp' = out.resp
        /\ fx' = out.fx
        /\ locals' = out.locals
        /\ UNCHANGED <<cfg_vars, rule_vars, orch_vars>>

(***************************************************************************)
(* The rule engine on its own: main.py:431-453 applied to drawn inputs.    *)
(* rule_in.pois is what pick_courses returned.                             *)
(***************************************************************************)
MaxPois == 2

MaxBl == 1

MaxCong == 1

SeqUpTo(S, n) == UNION { [1..k -> S] : k \in 0..n }

s_A == <<"A">>

s_B == <<"B">>

\* Every list is the rows of one CSV file as csv.DictReader returns them: the
\* rows of a file have the same columns, a cell is a string, and a row shorter
\* than the header has None in its last columns.
\* Candidate rows of a file with the columns name, area, poi_id: P_full has an
\* id and a name; P_name only a name, in another case, and an area with a
\* leading blank; P_short is a short row (poi_id is None); P_blank has empty
\* cells only.
P_full == Row(Str(<<"p", "1">>), Str(<<"F", "o", "o">>), Absent, Str(s_A), Absent, Absent)

P_name == Row(Str(<<>>), Str(<<"f", "o", "o">>), Absent, Str(<<" ", "A">>), Absent, Absent)

P_short == Row(PyNone, Str(<<"B", "a", "r">>), Absent, Str(s_B), Absent, Absent)

P_blank == Row(Str(<<>>), Str(<<>>), Absent, Str(<<>>), Absent, Absent)

PoiRows == {P_full, P_name, P_short, P_blank}

\* Blacklist rows of a file with the columns poi_id, name, severity.
B_id == Row(Str(<<"p", "1">>), Str(<<>>), Absent, Absent, Str(<<"H", "I", "G", "H">>), Absent)

B_name == Row(Str(<<>>), Str(<<"F", "o", "o">>), Absent, Absent, Str(<<"h", "i", "g", "h">>), Absent)

B_blank == Row(Str(<<>>), Str(<<" ", "B", "a", "r">>), Absent, Absent, Str(<<"h", "i", "g", "h">>), Absent)

B_low == Row(Str(<<>>), Str(<<"B", "a", "r">>), Absent, Absent, Str(<<"l", "o", "w">>), Absent)

BlRows == {B_id, B_name, B_blank, B_low}

\* Congestion rows of a file with the columns area, level.
G_A == Row(Absent, Absent, Absent, Str(s_A), Absent, Str(<<"H", "i", "g", "h">>))

G_B == Row(Absent, Absent, Absent, Str(<<"B", " ">>), Absent, Str(<<"h", "i", "g", "h">>))

G_low == Row(Absent, Absent, Absent, Str(s_A), Absent, Str(<<"l", "o", "w">>))

G_none == Row(Absent, Absent, Absent, Str(<<>>), Absent, Str(<<"h", "i", "g", "h">>))

CongRows == {G_A, G_B, G_low, G_none}

RuleIdle == [done |-> FALSE, after_bl |-> <<>>, after_cong |-> <<>>,
             notice |-> FALSE, draft |-> <<>>]

\* main.py:431-453 on (pois, bl, cong)
RuleEngine ==
    /\ ~rule_out.done
    /\ LET after_bl == filter_blacklist(rule_in.pois, rule_in.bl)
           r == apply_congestion_rules(after_bl, rule_in.cong)
       IN  rule_out' = [done |-> TRUE, after_bl |-> after_bl, after_cong |-> r.pois,
                        notice |-> r.notice, draft |-> draft_of(r.pois, r.notice)]
    /\ UNCHANGED <<cfg_vars, http_vars, rule_in, orch_vars>>


(***************************************************************************)
(* The dialogue orchestrator, modelled from spec.md: the session (3), the  *)
(* Session Store (4.1), the states of a request (4.5), the background job  *)
(* (5) and the acknowledgement and the callback delivery (6).              *)
(* An utterance is given by what the Intent Classifier (4.3) and the Slot  *)
(* Extractor (4.2) find in it.                                             *)
(***************************************************************************)
MaxNow == 2

MaxJobs == 1

\* the configured session TTL, in clock ticks
TTL == 1

\* the user identifiers; the Session Store acts on one key at a time
Users == {"u1"}

\* spec.md 4.5 (5): the fixed priority order of the slots
SLOT_ORDER == <<"nights", "lodging", "vibe", "food", "group">>

SlotNames == {SLOT_ORDER[i] : i \in 1..Len(SLOT_ORDER)}

Unset == "unset"

AllUnset == [n \in SlotNames |-> Unset]

\* no session yet for any user (created lazily on first access)
NoSession == [exists |-> FALSE, slots |-> AllUnset, updated |-> 0]

NoSessions == [u \in Users |-> NoSession]

\* 4.1 get: creates or returns the session; a session older than TTL has its
\* slots cleared by the read itself, the record is reused in place
store_get(ss, u, t) ==
    IF ~ss[u].exists
    THEN [ss EXCEPT ![u] = [exists |-> TRUE, slots |-> AllUnset, updated |-> t]]
    ELSE IF t - ss[u].updated > TTL
    THEN [ss EXCEPT ![u].slots = AllUnset]
    ELSE ss

\* 3: non-empty values overwrite, unset values are ignored
merge(slots, partial) ==
    [n \in SlotNames |-> IF partial[n] # Unset THEN partial[n] ELSE slots[n]]

\* 4.1 update: merges and refreshes the timestamp
store_update(ss, u, partial, t) ==
    [ss EXCEPT ![u] = [exists |-> TRUE, slots |-> merge(@.slots, partial), updated |-> t]]

\* A plausible slip: reset refreshes the timestamp and forgets the slots.
store_reset_KeepsSlots(ss, u, t) ==
    IF ss[u].exists THEN [ss EXCEPT ![u].updated = t] ELSE ss

\* 4.1 reset: clears all slots and refreshes the timestamp; no-op if the
\* user has no session yet
store_reset(ss, u, t) ==
    IF ss[u].exists
    THEN [ss EXCEPT ![u] = [exists |-> TRUE, slots |-> AllUnset, updated |-> t]]
    ELSE ss

\* the slots a get(u) at time t reads
read_slots(ss, u, t) == store_get(ss, u, t)[u].slots

\* the first slot in priority order that is still unset ("none": all known)
first_unset(slots) ==
    LET I == {i \in 1..Len(SLOT_ORDER) : slots[SLOT_ORDER[i]] = Unset}
    IN  IF I = {} THEN "none" ELSE SLOT_ORDER[SetMin(I)]

\* 6: the synchronous replies.  "text": one text bubble; "question": the
\* known slots and the question for one slot; "card": text and map-link
\* card; "ack": the acknowledgement-only marker of callback mode.
Reply(kind, text, slot, known) == [kind |-> kind, text |-> text, slot |-> slot, known |-> known]

R_text(text) == Reply("text", text, "none", AllUnset)

R_question(slot, known) == Reply("question", <<>>, slot, known)

R_card == Reply("card", <<>>, "none", AllUnset)

R_ack == Reply("ack", <<"WAITING_TEXT">>, "none", AllUnset)

\* 4.5 (6): the draft of the Rule Engine (4.4) behind a summary of the slots
build_draft(fs) ==
    LET r == apply_congestion_rules(
                 filter_blacklist(pick_courses(fs), read_csv_dicts(fs, F_BLACKLIST)),
                 read_csv_dicts(fs, F_CONGESTION))
    IN  <<"SLOT_SUMMARY", "\n">> \o draft_of(r.pois, r.notice)

\* the LLM gateway answers, errors, or misses its deadline
OrchLlm == {"ok", "error", "timeout"}

\* refine-or-fallback: the refined text, or the draft on error or timeout
resolve(draft, llm) == IF llm = "ok" THEN <<"REFINED_TEXT">> ELSE draft

\* a background unit of work, as scheduled: the callback address is the
\* user's, the final text is not yet resolved
Job(u, draft) == [state |-> "scheduled", addr |-> u, draft |-> draft, text |-> <<>>,
                  llm |-> 0, posts |-> 0]

\* the jobs but the i-th: a job that ran to completion is gone
Without(jb, i) == SubSeq(jb, 1, i - 1) \o SubSeq(jb, i + 1, Len(jb))

\* A plausible slip: the answer is resolved in the request even in callback mode.
dispatch_AlwaysSync(cm, cb, draft, llm, jb, u) ==
    [reply |-> R_text(resolve(draft, llm)), llm |-> 1, jobs |-> jb]

\* 4.5 (6): callback mode with a callback address acknowledges and schedules
\* the job; otherwise the LLM refinement is attempted in the request
dispatch(cm, cb, draft, llm, jb, u) ==
    IF cm /\ cb
    THEN [reply |-> R_ack, llm |-> 0, jobs |-> Append(jb, Job(u, draft))]
    ELSE [reply |-> R_text(resolve(draft, llm)), llm |-> 1, jobs |-> jb]

\* 4.5: the states of a request, in order, the first match terminal
orchestrate(ss, t, cm, fs, jb, u, utter, cb, llm) ==
    LET got == store_get(ss, u, t)
        merged == store_update(got, u, utter.partial, t)
        slots == merged[u].slots
        d == dispatch(cm, cb, build_draft(fs), llm, jb, u)
    IN  IF utter.probe
        THEN [path |-> "guarded", sessions |-> ss, reply |-> R_text(<<"REFUSAL_TEXT">>),
              llm |-> 0, jobs |-> jb]
        ELSE IF utter.reset
        THEN [path |-> "reset", sessions |-> store_reset(ss, u, t),
              reply |-> R_question(SLOT_ORDER[1], AllUnset), llm |-> 0, jobs |-> jb]
        ELSE IF utter.greeting
        THEN [path |-> "greeting", sessions |-> ss, reply |-> R_text(<<"GREETING_PROMPT">>),
              llm |-> 0, jobs |-> jb]
        ELSE IF utter.address
        THEN [path |-> "address", sessions |-> ss, reply |-> R_card, llm |-> 0, jobs |-> jb]
        ELSE IF first_unset(slots) # "none"
        THEN [path |-> "slot_filling", sessions |-> merged,
              reply |-> R_question(first_unset(slots), slots), llm |-> 0, jobs |-> jb]
        ELSE [path |-> "dispatch", sessions |-> merged, reply |-> d.reply,
              llm |-> d.llm, jobs |-> d.jobs]

NoTurn == [path |-> "none", user |-> "none", cb |-> FALSE, before |-> AllUnset,
           reply |-> Reply("none", <<>>, "none", AllUnset), llm |-> 0]

\* one inbound request of user u, answered; the LLM has an outcome only in a
\* request that calls it
Turn(u, utter, cb) ==
    LET calls == orchestrate(sessions, now, callback_mode, files, jobs, u, utter, cb, "ok").llm = 1
    IN  \E llm \in IF calls THEN OrchLlm ELSE {"ok"} :
          LET out == orchestrate(sessions, now, callback_mode, files, jobs, u, utter, cb, llm)
          IN  /\ Len(out.jobs) <= MaxJobs
              /\ sessions' = out.sessions
              /\ jobs' = out.jobs
              /\ turn' = [path |-> out.path, user |-> u, cb |-> cb,
                          before |-> read_slots(sessions, u, now),
                          reply |-> out.reply, llm |-> out.llm]
              /\ UNCHANGED <<cfg_vars, http_vars, rule_vars, now>>

\* time passes
Tick ==
    /\ now < MaxNow
    /\ now' = now + 1
    /\ UNCHANGED <<cfg_vars, http_vars, rule_vars, sessions, jobs, turn>>

\* 5: the background job runs to completion: refine-or-fallback ...
JobResolve(i, llm) ==
    /\ jobs[i].state = "scheduled"
    /\ jobs' = [jobs EXCEPT ![i] = [@ EXCEPT !.state = "resolved",
                                             !.text = resolve(jobs[i].draft, llm),
                                             !.llm = 1]]
    /\ UNCHANGED <<cfg_vars, http_vars, rule_vars, sessions, now, turn>>

\* ... then the POST to the callback address: delivered, or failed and
\* waiting out the backoff ...
JobPost(i, ok) ==
    /\ jobs[i].state = "resolved"
    /\ jobs' = IF ok THEN Without(jobs, i)
               ELSE [jobs EXCEPT ![i] = [@ EXCEPT !.state = "backoff", !.posts = 1]]
    /\ UNCHANGED <<cfg_vars, http_vars, rule_vars, sessions, now, turn>>

\* ... with one retry after the backoff; delivered or not, the job is over
\* and its result goes nowhere
JobRetry(i, ok) ==
    /\ jobs[i].state = "backoff"
    /\ jobs' = Without(jobs, i)
    /\ UNCHANGED <<cfg_vars, http_vars, rule_vars, sessions, now, turn>>

\* what the Slot Extractor finds: nothing; everything but the group; the
\* group alone; another number of nights
Partial(nights, lodging, vibe, food, group) ==
    [nights |-> nights, lodging |-> lodging, vibe |-> vibe, food |-> food, group |-> group]

X_none == AllUnset

X_four == Partial("2", "hotel", "sea", "seafood", Unset)

X_group == Partial(Unset, Unset, Unset, Unset, "couple")

X_nights == Partial("3", Unset, Unset, Unset, Unset)

Utter(probe, reset, greeting, address, partial) ==
    [probe |-> probe, reset |-> reset, greeting |-> greeting, address |-> address,
     partial |-> partial]

\* The utterances: a probe that is also a reset and names slots; a reset that
\* is also an address pair and names slots; a greeting; an address pair that
\* names slots; and the four slot-filling utterances.
OrchUtterances ==
    { Utter(TRUE, TRUE, FALSE, FALSE, X_four),
      Utter(FALSE, TRUE, FALSE, TRUE, X_four),
      Utter(FALSE, FALSE, TRUE, FALSE, X_none),
      Utter(FALSE, FALSE, FALSE, TRUE, X_group),
      Utter(FALSE, FALSE, FALSE, FALSE, X_none),
      Utter(FALSE, FALSE, FALSE, FALSE, X_four),
      Utter(FALSE, FALSE, FALSE, FALSE, X_group),
      Utter(FALSE, FALSE, FALSE, FALSE, X_nights) }

(***************************************************************************)
(* The service: both handlers of POST /kakao/skill, fed every kind of body *)
(***************************************************************************)
U_hi == <<"h", "i">>

U_blank == <<" ">>

U_probe_en == <<"m", "y", " ", "P", "R", "O", "M", "P", "T">>

U_probe_ko == <<" ", "ko_ji", "ko_chi_m", " ", "ko_a_l", "ko_ryeo", "ko_jwo", " ">>

U_probe_addr == <<"c", "s", "v", " ", "t", "o", " ", "j", "s", "o", "n">>

U_probe_weather == <<"ko_si", "ko_seu", "ko_te_m", " ", "ko_na_l", "ko_ssi">>

U_seoul_busan == <<"ko_seo", "ko_u_l", "ko_e", "ko_seo", " ", "ko_bu", "ko_sa_n", "ko_kka", "ko_ji">>

U_station == <<"ko_seo", "ko_u_l", "ko_yeo_g", "ko_e", "ko_seo", " ", "ko_bu", "ko_sa_n", "ko_yeo_g", "ko_kka", "ko_ji">>

U_en_addr == <<"S", "e", "o", "u", "l", " ", "t", "o", " ", "B", "u", "s", "a", "n">>

U_arrow_addr == <<"j", "e", "j", "u", " ", "-", ">", " ", "b", "u", "s", "a", "n">>

U_short_addr == <<"a", "b", " ", "t", "o", " ", "c", "d">>

U_inner_to == <<"s", "t", "o", "p", " ", "t", "o", " ", "b", "u", "s">>

\* form feeds (JSON \f) around the separator and around the utterance
U_ff_addr == <<"\f", "a", "b", "c", "\f", "t", "o", "\f", "d", "(", "e", ")", "\f">>

U_spot == <<"ko_myeo_ng", "ko_so", " ", "ko_chu", "ko_cheo_n">>

U_weather_ko == <<"ko_je", "ko_ju", " ", "ko_na_l", "ko_ssi">>

U_weather_en == <<"W", "e", "a", "t", "h", "e", "r", "?">>

U_festival == <<"ko_o", "ko_neu_l", " ", "ko_chu_g", "ko_je">>

Utterances ==
    {U_hi, U_blank, U_probe_en, U_probe_ko, U_probe_addr, U_probe_weather,
     U_seoul_busan, U_station, U_en_addr, U_arrow_addr, U_short_addr, U_inner_to, U_ff_addr,
     U_spot, U_weather_ko, U_weather_en, U_festival}

Bodies ==
    { Body(t, UR_missing) : t \in {"unparseable", "null", "list", "str", "int"} }
    \cup { Body("dict", ur) :
             ur \in { UR_missing, UR("null", FALSE, J_missing), UR("str", TRUE, J_missing),
                      UR("str", FALSE, J_missing), UR("int", FALSE, J_missing),
                      UR("list", TRUE, J_missing), UR("dict", FALSE, J_missing),
                      UR("dict", TRUE, J_missing) } }
    \cup { Body("dict", UR("dict", TRUE, ut)) :
             ut \in { JV("null", FALSE, <<>>), JV("int", FALSE, <<>>), JV("int", TRUE, <<>>),
                      JV("bool", TRUE, <<>>), JV("list", FALSE, <<>>), JV("list", TRUE, <<>>),
                      JV("dict", TRUE, <<>>), J_str(<<>>) } }
    \cup { BodyOf(u) : u \in Utterances }

s_refined == <<" ", "R", "e", "f", "i", "n", "e", "d", "\n">>

LlmOutcomes ==
    { [raises |-> TRUE, content |-> PyNone],
      [raises |-> FALSE, content |-> PyNone],
      [raises |-> FALSE, content |-> Str(s_refined)],
      [raises |-> FALSE, content |-> Str(<<"o", "k">>)] }

R_kma == [title |-> <<"KMA">>, snippet |-> <<>>, link |-> <<"https://", "www.", "weather.go.kr", "/w">>]

R_naver == [title |-> <<"Naver">>, snippet |-> <<>>, link |-> <<"https://", "search.naver.com", "/q">>]

R_blog == [title |-> <<"Blog">>, snippet |-> <<>>, link |-> <<"https://", "blog.example", "/p">>]

ProviderResults == { <<>>, <<R_blog, R_kma>>, <<R_naver, R_kma, R_naver>> }

File(rows) == [ok |-> TRUE, rows |-> rows]

NoFile == [ok |-> FALSE, rows |-> <<>>]

NoFiles == [f \in FileNames |-> NoFile]

\* Course rows of a file with the columns name, title, area, poi_id: H_full is
\* a full row with an empty title; H_short lacks its last cell; H_title has a
\* title only and lacks its last two cells; H_name has a name and an area.
H_full == Row(Str(<<"p", "1">>), Str(<<"F", "o", "o">>), Str(<<>>), Str(s_A), Absent, Absent)

H_short == Row(PyNone, Str(<<"B", "a", "r">>), Str(<<"T">>), Str(s_B), Absent, Absent)

H_title == Row(PyNone, Str(<<>>), Str(<<"T">>), PyNone, Absent, Absent)

H_name == Row(Str(<<>>), Str(<<"f", "o", "o">>), Str(<<>>), Str(<<" ", "A">>), Absent, Absent)

\* The data directories: nothing there; one of two courses in a congested
\* area; the primary list empty, the sample list all congested after the
\* blacklist took one; more than TOP_N courses and nothing "high".
DataDirs ==
    { NoFiles,
      [NoFiles EXCEPT ![F_HOTEL] = File(<<H_full, H_short>>),
                      ![F_CONGESTION] = File(<<G_A>>)],
      [NoFiles EXCEPT ![F_HOTEL] = File(<<>>),
                      ![F_SAMPLE] = File(<<P_name, P_full>>),
                      ![F_BLACKLIST] = File(<<B_id>>),
                      ![F_CONGESTION] = File(<<G_low, G_A>>)],
      [NoFiles EXCEPT ![F_HOTEL] = File(<<H_title, H_full, H_short, H_name>>),
                      ![F_BLACKLIST] = File(<<B_low>>),
                      ![F_CONGESTION] = File(<<G_low>>)] }

NoReq == [side |-> "none"]

NoResp == [status |-> 0]

Init ==
    /\ client \in BOOLEAN
    /\ search_enabled \in BOOLEAN
    /\ files \in DataDirs
    /\ callback_mode = FALSE
    /\ req = NoReq /\ resp = NoResp /\ fx = NoFx /\ locals = NoLocals
    /\ rule_in = [pois |-> <<>>, bl |-> <<>>, cong |-> <<>>] /\ rule_out = RuleIdle
    /\ sessions = NoSessions /\ now = 0 /\ jobs = <<>> /\ turn = NoTurn

\* The response has gone out; the worker takes the next request.  Neither
\* handler keeps anything from one request to the next.
SendResponse ==
    /\ req.side # "none"
    /\ req' = NoReq /\ resp' = NoResp /\ fx' = NoFx /\ locals' = NoLocals
    /\ UNCHANGED <<cfg_vars, rule_vars, orch_vars>>

Next ==
    \/ SendResponse
    \/ \E body \in Bodies, llm \in LlmOutcomes : kakao_skill(body, llm)
    \/ \E body \in Bodies, provider \in ProviderResults : kakao_skill_282b(body, provider)

Spec == Init /\ [][Next]_vars

(***************************************************************************)
(* The rule engine fed every candidate list, blacklist and rule set        *)
(***************************************************************************)
InitRules ==
    /\ rule_in \in [pois : SeqUpTo(PoiRows, MaxPois),
                    bl : SeqUpTo(BlRows, MaxBl),
                    cong : SeqUpTo(CongRows, MaxCong)]
    /\ rule_out = RuleIdle
    /\ client = FALSE /\ search_enabled = FALSE /\ files = NoFiles
    /\ callback_mode = FALSE
    /\ req = NoReq /\ resp = NoResp
    /\ fx = NoFx /\ locals = NoLocals
    /\ sessions = NoSessions /\ now = 0 /\ jobs = <<>> /\ turn = NoTurn

NextRules == RuleEngine

SpecRules == InitRules /\ [][NextRules]_vars

(***************************************************************************)
(* The orchestrator fed every user, utterance, callback address, LLM       *)
(* outcome and delivery outcome, with the clock running                    *)
(***************************************************************************)
InitOrch ==
    /\ callback_mode \in BOOLEAN
    /\ files = NoFiles
    /\ sessions = NoSessions /\ now = 0 /\ jobs = <<>> /\ turn = NoTurn
    /\ client = TRUE /\ search_enabled = FALSE
    /\ req = NoReq /\ resp = NoResp /\ fx = NoFx /\ locals = NoLocals
    /\ rule_in = [pois |-> <<>>, bl |-> <<>>, cong |-> <<>>] /\ rule_out = RuleIdle

NextOrch ==
    \/ \E u \in Users, utter \in OrchUtterances, cb \in BOOLEAN : Turn(u, utter, cb)
    \/ Tick
    \/ \E i \in 1..Len(jobs), llm \in OrchLlm : JobResolve(i, llm)
    \/ \E i \in 1..Len(jobs), ok \in BOOLEAN : JobPost(i, ok)
    \/ \E i \in 1..Len(jobs), ok \in BOOLEAN : JobRetry(i, ok)

SpecOrch == InitOrch /\ [][NextOrch]_vars

(***************************************************************************)
(* Claims about the rule engine (checked under SpecRules)                  *)
(***************************************************************************)
IsHigh(v) == lower(py_or(v, Str(<<>>)).s) = <<"h", "i", "g", "h">>

\* p lies in an area that some rule marks "high"
InHighArea(p, rules) ==
    \E j \in 1..Len(rules) :
        /\ IsHigh(get(rules[j], "level"))
        /\ strip(py_or(get(rules[j], "area"), Str(<<>>)).s)
             = strip(py_or(get(p, "area"), Str(<<>>)).s)

AllInHighArea(pois, rules) == \A i \in 1..Len(pois) : InHighArea(pois[i], rules)

\* C5: apply_congestion_rules never returns an empty list for a non-empty
\* candidate list; when every candidate lies in a high-congestion area the
\* input list comes back unchanged.
C5_NeverEmpty ==
    rule_out.done =>
        /\ rule_out.after_bl # <<>> => rule_out.after_cong # <<>>
        /\ AllInHighArea(rule_out.after_bl, rule_in.cong)
              => rule_out.after_cong = rule_out.after_bl

\* C5 witness: two candidates, both in a high-congestion area, came back.
C5_Witness ==
    /\ rule_out.done
    /\ Len(rule_out.after_bl) = 2
    /\ AllInHighArea(rule_out.after_bl, rule_in.cong)
    /\ rule_out.after_cong = rule_out.after_bl

\* the trimmed value of a cell, or <<>> when it is empty or None
Trimmed(v) == strip(py_or(v, Str(<<>>)).s)

\* p's identifier or p's name appears, letter for letter, in a "high" entry of bl
BlacklistedExact(p, bl) ==
    \E j \in 1..Len(bl) :
        /\ IsHigh(get(bl[j], "severity"))
        /\ \/ /\ Trimmed(get(p, "poi_id")) # <<>>
              /\ Trimmed(get(p, "poi_id")) = Trimmed(get(bl[j], "poi_id"))
           \/ /\ Trimmed(get(p, "name")) # <<>>
              /\ Trimmed(get(p, "name")) = Trimmed(get(bl[j], "name"))

\* the same, letters compared without regard to case
BlacklistedAnyCase(p, bl) ==
    \E j \in 1..Len(bl) :
        /\ IsHigh(get(bl[j], "severity"))
        /\ \/ /\ Trimmed(get(p, "poi_id")) # <<>>
              /\ lower(Trimmed(get(p, "poi_id"))) = lower(Trimmed(get(bl[j], "poi_id")))
           \/ /\ Trimmed(get(p, "name")) # <<>>
              /\ lower(Trimmed(get(p, "name"))) = lower(Trimmed(get(bl[j], "name")))

NotBlacklistedAnyCase(p) == ~BlacklistedAnyCase(p, rule_in.bl)

\* C6 as claimed: filter_blacklist removes every candidate whose identifier or
\* name appears in a "high" blacklist entry, whatever the other fields hold,
\* and keeps every other candidate in order.  Stated so that it follows from
\* the claim whether "case-insensitively" is read of the severity alone or of
\* the identifiers too: a candidate matched letter for letter must go, a
\* candidate not matched even without regard to case must stay.  The code
\* violates it.
C6_AsClaimed ==
    rule_out.done =>
        /\ \A i \in 1..Len(rule_in.pois) :
              BlacklistedExact(rule_in.pois[i], rule_in.bl)
                 => \A k \in 1..Len(rule_out.after_bl) :
                        rule_out.after_bl[k] # rule_in.pois[i]
        /\ SelectSeq(rule_out.after_bl, NotBlacklistedAnyCase)
              = SelectSeq(rule_in.pois, NotBlacklistedAnyCase)

\* C10: the notice flag is true exactly when some candidate lies in a
\* high-congestion area (also when the removal was reverted); when it is true
\* the congestion tip is the first line of the tips section of the draft, and
\* when it is false the tip is nowhere in the draft.
C10_NoticeAndTip ==
    rule_out.done =>
        LET lines == split_lines(rule_out.draft)
        IN  /\ rule_out.notice
                <=> \E i \in 1..Len(rule_out.after_bl) :
                        InHighArea(rule_out.after_bl[i], rule_in.cong)
            /\ lines[1] = <<"HDR_TIPS">>
            /\ rule_out.notice => lines[2] = <<"TIP_CONGESTION">>
            /\ ~rule_out.notice =>
                   \A i \in 1..Len(rule_out.draft) : rule_out.draft[i] # "TIP_CONGESTION"

\* C10 witness: the removal was reverted (every candidate is in a high area,
\* the list came back whole) and the flag is still raised, with the tip first.
C10_Witness ==
    /\ rule_out.done
    /\ rule_out.after_bl # <<>>
    /\ rule_out.after_cong = rule_out.after_bl
    /\ rule_out.notice
    /\ split_lines(rule_out.draft)[2] = <<"TIP_CONGESTION">>

(***************************************************************************)
(* Claims about the handlers (checked under Spec)                          *)
(***************************************************************************)
\* the body is an object holding a string utterance
HasUtterance(r) ==
    r.body.t = "dict" /\ r.body.ur.t = "dict" /\ r.body.ur.truthy /\ r.body.ur.ut.t = "str"

\* the utterance of a request that holds one, as the handlers see it
UtterOf(r) == r.body.ur.ut.s

\* a request to POST /kakao/skill, answered by either handler of the route,
\* whose utterance is an internal probe
IsProbeRequest(r) ==
    r.side \in {"HEAD", "282b"} /\ HasUtterance(r) /\ is_internal_probe(UtterOf(r))

\* the response is a 200 with a Kakao envelope holding at least one bubble
IsEnvelope(r) == r.status = 200 /\ r.body.version = "2.0" /\ Len(r.body.template.outputs) >= 1

\* the response is one text bubble; its text
IsTextBubble(r) ==
    IsEnvelope(r) /\ Len(r.body.template.outputs) = 1 /\ DOMAIN r.body.template.outputs[1] = {"simpleText"}

TextOf(r) == r.body.template.outputs[1].simpleText.text

\* C1 as claimed: every request to POST /kakao/skill whose utterance is an
\* internal probe is answered with exactly the one text bubble holding the
\* refusal text, whatever else the utterance holds and whether or not the LLM
\* client is configured; the step calls no LLM, reads no knowledge file, makes
\* no search and changes nothing else.  The code violates it: of the two
\* handlers of the route only the one of main.py:413-425 has the guard.
C1_AsClaimed ==
    [][ IsProbeRequest(req') =>
           /\ resp' = Ok200(kakao_text(<<"REFUSAL_TEXT">>))
           /\ fx' = NoFx
           /\ ~locals'.built
           /\ UNCHANGED <<cfg_vars, rule_vars, orch_vars>> ]_vars

\* C2 as claimed: whatever the body, the handler (either side) ends with a
\* validly shaped envelope; no exception leaves it.  The code violates it.
C2_AsClaimed == req.side \in {"HEAD", "282b"} => IsEnvelope(resp)

\* the static placeholder course line and the closing disclaimer are in text
HasPlaceholderAndDisclaimer(text) ==
    /\ \E i \in 1..Len(text) : text[i] = "COURSE_PLACEHOLDER"
    /\ \E i \in 1..Len(text) : text[i] = "DISCLAIMER"

\* C3 as claimed: with the knowledge files missing and the LLM out of reach
\* (no client configured, or the call raising), a request that is no probe is
\* still answered with the placeholder course line and the disclaimer.  The
\* code violates it.
C3_AsClaimed ==
    ( /\ req.side = "HEAD"
      /\ HasUtterance(req)
      /\ ~is_internal_probe(req.body.ur.ut.s)
      /\ files = NoFiles
      /\ ~client \/ req.llm.raises )
    => IsTextBubble(resp) /\ HasPlaceholderAndDisclaimer(TextOf(resp))

ErrorTexts == { <<"ERR_NO_KEY_HEAD">>, <<"ERR_NO_KEY_282B">>, <<"ERR_TRY_LATER">> }

\* C4 as claimed: whenever a request reaches the LLM step of the handler
\* (either side), the response is one text bubble that is no error text: the
\* locally built draft when the call raised, the text the LLM returned
\* (trimmed) when it succeeded.  The code violates it.
C4_AsClaimed ==
    (req.side \in {"HEAD", "282b"} /\ locals.path = "llm") =>
        /\ IsTextBubble(resp)
        /\ TextOf(resp) \notin ErrorTexts
        /\ locals.built
        /\ TextOf(resp) = IF llm_answer(req.llm).raised THEN locals.draft
                          ELSE llm_answer(req.llm).text

s_seoul == <<"ko_seo", "ko_u_l">>

s_busan == <<"ko_bu", "ko_sa_n">>

\* C7 as claimed: the utterance U_seoul_busan alone is answered with a text
\* bubble and the directions card whose three links are built from s_seoul
\* and s_busan, and no LLM call is made.  The code violates it.
C7_AsClaimed ==
    (req.side = "282b" /\ req.body = BodyOf(U_seoul_busan)) =>
        /\ resp = Ok200(kakao_text_plus_card(<<"EXPLAIN_DIRECTIONS_KO">>,
                            build_directions_card(s_seoul, s_busan, "ko")))
        /\ Len(resp.body.template.outputs[2].basicCard.buttons) = 3
        /\ fx.llm = 0

\* C11 as claimed: a request is answered by the first path that matches, in
\* the fixed order.  In either handler an utterance that is an internal probe
\* is answered by the guard with the refusal, also when it is an address pair
\* or names a spot or the weather; in the handler that routes addresses
\* (282b) an utterance that is no probe and parses as an address pair is
\* answered by address routing, with no search and no LLM step.  The code
\* violates it: the handler with the later paths has no guard.
C11_AsClaimed ==
    (req.side \in {"HEAD", "282b"} /\ HasUtterance(req)) =>
        /\ is_internal_probe(strip(UtterOf(req)))
              => /\ locals.path = "guard"
                 /\ resp = Ok200(kakao_text(<<"REFUSAL_TEXT">>))
        /\ ( /\ req.side = "282b"
             /\ ~is_internal_probe(strip(UtterOf(req)))
             /\ parse_addr_to_addr(UtterOf(req)).ok )
              => /\ locals.path = "address"
                 /\ fx = NoFx

\* the two substrings a phrasing parsed out of t, trimmed, are both longer
\* than two characters
LongPair(m) == m.m /\ Len(strip(m.g1)) > 2 /\ Len(strip(m.g2)) > 2

\* the paths of the 282b handler after address routing
LaterPaths == {"spot", "no_key", "weather", "llm"}

\* C12: for a request to the handler of main.py:475-558 that holds an
\* utterance, parse_addr_to_addr returns a pair exactly when one of the two
\* phrasings ("A to B" with its arrows, "A ESEO B KKAJI") parsed two
\* substrings that are both longer than 2 characters after trimming, and the
\* pair is those two trimmed substrings; when it returns a pair the answer is
\* the explanation text and the directions card built from the pair, with no
\* LLM call, no search and no file read; when it returns no pair the request
\* is answered by one of the later paths and never by the directions card.
C12_PairRoutesToCard ==
    (req.side = "282b" /\ HasUtterance(req)) =>
        LET utter == UtterOf(req)
            t == strip(utter)
            pair == parse_addr_to_addr(utter)
            lang == guess_lang(utter)
        IN  /\ pair.ok <=> (LongPair(search_to(t)) \/ LongPair(search_eseo(t)))
            /\ pair.ok =>
                  /\ Len(pair.a) > 2 /\ Len(pair.b) > 2
                  /\ strip(pair.a) = pair.a /\ strip(pair.b) = pair.b
                  /\ \E m \in {search_to(t), search_eseo(t)} :
                         m.m /\ pair.a = strip(m.g1) /\ pair.b = strip(m.g2)
                  /\ locals.path = "address"
                  /\ resp = Ok200(kakao_text_plus_card(
                                IF lang = "ko" THEN <<"EXPLAIN_DIRECTIONS_KO">>
                                ELSE <<"EXPLAIN_DIRECTIONS_EN">>,
                                build_directions_card(pair.a, pair.b, lang)))
                  /\ fx = NoFx
            /\ ~pair.ok =>
                  /\ locals.path \in LaterPaths
                  /\ \A i \in 1..Len(resp.body.template.outputs) :
                         "basicCard" \in DOMAIN resp.body.template.outputs[i]
                            => resp.body.template.outputs[i].basicCard.title
                                  \notin {<<"TITLE_DIRECTIONS_KO">>, <<"Directions">>}

\* the utterance U_station (three syllables on each side of ESEO .. KKAJI)
\* was answered by address routing with the card and nothing else was called
C12_Witness ==
    /\ req.side = "282b"
    /\ req.body = BodyOf(U_station)
    /\ parse_addr_to_addr(U_station).ok
    /\ locals.path = "address"
    /\ Len(resp.body.template.outputs) = 2
    /\ "basicCard" \in DOMAIN resp.body.template.outputs[2]
    /\ fx = NoFx

(***************************************************************************)
(* Claims about the orchestrator (checked under SpecOrch)                  *)
(***************************************************************************)
\* the last request carried a callback address while callback mode is on
CallbackRequest == turn.path # "none" /\ callback_mode /\ turn.cb

\* C8 as first stated: whenever callback mode is on and the request carries a
\* callback address, the synchronous reply is the acknowledgement.  A request
\* answered by an earlier state (guard, reset, greeting, address, slot
\* question) violates it.
C8_AsClaimed == CallbackRequest => turn.reply = R_ack

\* C8, amended: whenever callback mode is on, the request carries a callback
\* address and it reaches recommendation dispatch, the synchronous reply is
\* the acknowledgement and the request itself makes no LLM call; a job enters
\* the queue only with such an acknowledgement, untouched (no LLM call, no
\* POST made); and every LLM resolution and every POST is a step of the
\* background job on a job scheduled before, not a step of a request.
C8_AckThenBackground ==
    [][ /\ (CallbackRequest' /\ turn'.path = "dispatch")
              => turn'.reply = R_ack /\ turn'.llm = 0
        /\ Len(jobs') > Len(jobs)
              => /\ turn'.reply = R_ack
                 /\ Len(jobs') = Len(jobs) + 1
                 /\ SubSeq(jobs', 1, Len(jobs)) = jobs
                 /\ jobs'[Len(jobs')].state = "scheduled"
                 /\ jobs'[Len(jobs')].llm = 0
                 /\ jobs'[Len(jobs')].posts = 0
        /\ (jobs' # jobs /\ Len(jobs') <= Len(jobs))
              => /\ turn' = turn /\ sessions' = sessions
                 /\ \E i \in 1..Len(jobs) :
                       /\ jobs[i].state \in {"scheduled", "resolved", "backoff"}
                       /\ \/ jobs' = Without(jobs, i) /\ jobs[i].llm = 1
                          \/ /\ Len(jobs') = Len(jobs)
                             /\ \A k \in 1..Len(jobs) : k # i => jobs'[k] = jobs[k]
                             /\ jobs'[i].llm = 1
                             /\ jobs'[i].posts >= jobs[i].posts ]_vars

\* C8 witness: the request was acknowledged, and afterwards its job resolved
\* the final text and made a first POST, which failed.
C8_Witness ==
    /\ CallbackRequest /\ turn.path = "dispatch" /\ turn.reply = R_ack
    /\ Len(jobs) = 1
    /\ jobs[1].state = "backoff" /\ jobs[1].llm = 1 /\ jobs[1].posts = 1
    /\ jobs[1].text = <<"REFINED_TEXT">>

\* C9: after a reset command every one of the five slots of the user is unset,
\* as stored and as the next get reads them, and the reply to the reset is
\* the question for the first slot in priority order, nights.
C9_ResetClears ==
    turn.path = "reset" =>
        /\ \A n \in {"nights", "lodging", "vibe", "food", "group"} :
              /\ sessions[turn.user].slots[n] = Unset
              /\ read_slots(sessions, turn.user, now)[n] = Unset
        /\ turn.reply.kind = "question"
        /\ turn.reply.slot = "nights"

\* C9 witness: a reset by a user all of whose five slots were known, in an
\* utterance that is also an address pair and names slots itself.
C9_Witness ==
    /\ turn.path = "reset"
    /\ first_unset(turn.before) = "none"
    /\ sessions[turn.user].exists
    /\ sessions[turn.user].slots = AllUnset

====
